---- MODULE Spec2Model ----
(***************************************************************************)
(* A model of the 19hz event-listing server: the row field extractors, the *)
(* event row parser, the listing extractor, the search filter, the         *)
(* paginator, the region lookup, the all-regions search and the            *)
(* region-discovery check.                                                 *)
(*                                                                         *)
(* Representation.  A Python str is a sequence of one-character strings,   *)
(* so that lower(), strip(), split() and the regular expressions are       *)
(* computed character by character.  An Optional value is a sequence of    *)
(* length 0 (None) or 1 (the value).  A table cell is the sequence of its  *)
(* child nodes in document order: text nodes and <a> elements.             *)
(***************************************************************************)
EXTENDS Integers, Sequences, FiniteSets, TLC

VARIABLES
    pc,        \* position of the operation under way
    input,     \* the arguments of the operation (a record)
    result,    \* what the operation returned (a record), or the loop's accumulator
    fetched,   \* the fetch attempts issued so far, in order (sequence of locators)
    responses  \* what the page fetcher answered so far, in order

vars == <<pc, input, result, fetched, responses>>

-----------------------------------------------------------------------------
(* Python values *)

None == <<>>
Some(v) == <<v>>

Min(S) == CHOOSE x \in S : \A y \in S : x <= y
Max(S) == CHOOSE x \in S : \A y \in S : x >= y

UpperChars == <<"A","B","C","D","E","F","G","H","I","J","K","L","M",
                "N","O","P","Q","R","S","T","U","V","W","X","Y","Z">>
LowerChars == <<"a","b","c","d","e","f","g","h","i","j","k","l","m",
                "n","o","p","q","r","s","t","u","v","w","x","y","z">>
Digits == {"0","1","2","3","4","5","6","7","8","9"}

Range(s) == {s[i] : i \in 1..Len(s)}

\* str.lower(), one character
LowerChar(c) ==
    IF \E i \in 1..26 : UpperChars[i] = c
    THEN LowerChars[CHOOSE i \in 1..26 : UpperChars[i] = c]
    ELSE c

\* str.lower()
Lower(s) == [i \in 1..Len(s) |-> LowerChar(s[i])]

IsSpace(c) == c \in {" ", "\n", "\t"}

IsWordChar(c) == c \in Range(UpperChars) \cup Range(LowerChars) \cup Digits \cup {"_"}

\* str.strip()
Strip(s) ==
    LET keep == {i \in 1..Len(s) : ~IsSpace(s[i])}
    IN  IF keep = {} THEN <<>> ELSE SubSeq(s, Min(keep), Max(keep))

\* sub in s (Python's substring test)
Contains(sub, s) ==
    \E i \in 0..(Len(s) - Len(sub)) : SubSeq(s, i + 1, i + Len(sub)) = sub

\* s.startswith(p)
StartsWith(s, p) == Len(s) >= Len(p) /\ SubSeq(s, 1, Len(p)) = p

\* index of the first occurrence of character c in s, 0 when there is none
Find(s, c) ==
    LET at == {i \in 1..Len(s) : s[i] = c}
    IN  IF at = {} THEN 0 ELSE Min(at)

\* s.split(c), for a one-character separator
RECURSIVE Split(_, _)
Split(s, c) ==
    LET i == Find(s, c)
    IN  IF i = 0 THEN <<s>>
        ELSE <<SubSeq(s, 1, i - 1)>> \o Split(SubSeq(s, i + 1, Len(s)), c)

RECURSIVE Concat(_)
Concat(ss) == IF ss = <<>> THEN <<>> ELSE Head(ss) \o Concat(Tail(ss))

\* Python truthiness of an Optional[str]: None and "" are falsy
Truthy(opt) == opt # None /\ opt[1] # <<>>

-----------------------------------------------------------------------------
(* DOM queries (selectolax) *)

TextNode(s) == [tag |-> "text", text |-> s, href |-> None]
LinkNode(s, h) == [tag |-> "a", text |-> s, href |-> h]

\* node.text(deep=True, strip=True): every text part stripped, then joined
CellText(cell) == Concat([i \in 1..Len(cell) |-> Strip(cell[i].text)])

\* cell.css("a")
CssLinks(cell) == SelectSeq(cell, LAMBDA n : n.tag = "a")

\* link.text(strip=True)
LinkText(link) == Strip(link.text)

\* link.attributes.get("href", ""): "" when absent, None when valueless; both falsy
HrefGet(link) == IF link.href = None THEN <<>> ELSE link.href[1]

-----------------------------------------------------------------------------
(* EventParser: class constants *)

MIN_CELLS_FOR_EVENT == 6
DEFAULT_PAGE_SIZE == 50

BASE_URL == <<"h","t","t","p","s",":","/","/","1","9","h","z",".","i","n","f","o">>

Weekdays == { <<"M","o","n">>, <<"T","u","e">>, <<"W","e","d">>, <<"T","h","u">>,
              <<"F","r","i">>, <<"S","a","t">>, <<"S","u","n">> }

\* DATE_PATTERN compiled with re.IGNORECASE (a mutant of DATE_PATTERN)
DATE_PATTERN_IgnoreCase(text) ==
    LET lowered == {Lower(w) : w \in Weekdays}
        at == {i \in 1..(Len(text) - 2) : Lower(SubSeq(text, i, i + 2)) \in lowered}
    IN  IF at = {} THEN None
        ELSE LET i == Min(at)
                 nl == {j \in (i + 3)..Len(text) : text[j] = "\n"}
                 e == IF nl = {} THEN Len(text) ELSE Min(nl) - 1
             IN  Some(SubSeq(text, i, e))

\* DATE_PATTERN.search(text): (Mon|Tue|Wed|Thu|Fri|Sat|Sun)[^\n]*, case-sensitive.
\* The leftmost weekday token, extended up to (not including) the next newline.
DATE_PATTERN(text) ==
    LET at == {i \in 1..(Len(text) - 2) : SubSeq(text, i, i + 2) \in Weekdays}
    IN  IF at = {} THEN None
        ELSE LET i == Min(at)
                 nl == {j \in (i + 3)..Len(text) : text[j] = "\n"}
                 e == IF nl = {} THEN Len(text) ELSE Min(nl) - 1
             IN  Some(SubSeq(text, i, e))

\* TIME_PATTERN.search(text), group 1: \(([^)]+)\)
\* The leftmost "(" whose next ")" lies at least one character further.
TIME_PATTERN(text) ==
    LET close(i) == {j \in (i + 1)..Len(text) : text[j] = ")"}
        at == {i \in 1..Len(text) :
                 text[i] = "(" /\ close(i) # {} /\ Min(close(i)) >= i + 2}
    IN  IF at = {} THEN None
        ELSE LET i == Min(at) IN Some(SubSeq(text, i + 1, Min(close(i)) - 1))

\* the end of the run of characters of class cls that starts at position i
RunEnd(text, i, cls) ==
    LET stop == {j \in i..Len(text) : text[j] \notin cls}
    IN  IF stop = {} THEN Len(text) ELSE Min(stop) - 1

\* the text PRICE_PATTERN matches at position i, or None:
\* \$[\d\.]+|free|donation, IGNORECASE (alternatives tried in this order)
PriceAt(text, i) ==
    LET dd == Digits \cup {"."}
        word(w) == i + Len(w) - 1 <= Len(text)
                   /\ Lower(SubSeq(text, i, i + Len(w) - 1)) = w
    IN  IF text[i] = "$" /\ i < Len(text) /\ text[i + 1] \in dd
        THEN Some(SubSeq(text, i, RunEnd(text, i + 1, dd)))
        ELSE IF word(<<"f","r","e","e">>) THEN Some(SubSeq(text, i, i + 3))
        ELSE IF word(<<"d","o","n","a","t","i","o","n">>) THEN Some(SubSeq(text, i, i + 7))
        ELSE None

\* PRICE_PATTERN.search(text), group 0
PRICE_PATTERN(text) ==
    LET at == {i \in 1..Len(text) : PriceAt(text, i) # None}
    IN  IF at = {} THEN None ELSE PriceAt(text, Min(at))

\* the text AGE_PATTERN matches at position i, or None:
\* \b(21\+|18\+|All ages|\d+\+), IGNORECASE.  Every alternative starts with a
\* word character, so \b asks for the start of the text or a non-word character before.
AgeAt(text, i) ==
    LET boundary == IsWordChar(text[i]) /\ (i = 1 \/ ~IsWordChar(text[i - 1]))
        e == RunEnd(text, i, Digits)
        allages == <<"a","l","l"," ","a","g","e","s">>
    IN  IF ~boundary THEN None
        ELSE IF text[i] \in Digits /\ e < Len(text) /\ text[e + 1] = "+"
        THEN Some(SubSeq(text, i, e + 1))
        ELSE IF i + 7 <= Len(text) /\ Lower(SubSeq(text, i, i + 7)) = allages
        THEN Some(SubSeq(text, i, i + 7))
        ELSE None

\* AGE_PATTERN.search(text), group 0
AGE_PATTERN(text) ==
    LET at == {i \in 1..Len(text) : AgeAt(text, i) # None}
    IN  IF at = {} THEN None ELSE AgeAt(text, Min(at))

\* VENUE_LOCATION_PATTERN.sub("", venue): \([^)]+\)$ removed
VENUE_LOCATION_PATTERN(v) ==
    LET L == Len(v)
        at == {i \in 1..(L - 2) :
                 v[i] = "(" /\ v[L] = ")" /\ \A j \in (i + 1)..(L - 1) : v[j] # ")"}
    IN  IF at = {} THEN v ELSE SubSeq(v, 1, Min(at) - 1)

-----------------------------------------------------------------------------
(* Row field extractors *)

_make_absolute_url(url) ==
    IF url = <<>> THEN None
    ELSE IF StartsWith(url, <<"h","t","t","p">>) THEN Some(url)
    ELSE IF StartsWith(url, <<"/">>) THEN Some(BASE_URL \o url)
    ELSE Some(url)

\* returns <<date, time>>; date None when no weekday token is found
_extract_datetime(cell) ==
    LET text == CellText(cell)
        date_match == DATE_PATTERN(text)
        time_match == TIME_PATTERN(text)
    IN  IF date_match = None THEN <<None, <<"T","B","A">> >>
        ELSE <<date_match, IF time_match # None THEN time_match[1] ELSE <<"T","B","A">> >>

\* returns <<title, url>>
_extract_title_and_url(cell) ==
    LET links == CssLinks(cell)
        text == CellText(cell)
    IN  IF links # <<>>
        THEN <<LinkText(links[1]), _make_absolute_url(HrefGet(links[1]))>>
        ELSE << IF Find(text, "@") # 0
                THEN Strip(Split(text, "@")[1])
                ELSE <<"E","v","e","n","t">>,
                None >>

_extract_venue(cell) ==
    LET text == CellText(cell)
        i == Find(text, "@")
    IN  IF i = 0 THEN <<"T","B","A">>
        ELSE Strip(VENUE_LOCATION_PATTERN(Strip(SubSeq(text, i + 1, Len(text)))))

\* [g.strip() for g in text.split(",") if g.strip()]
StripNonEmpty(parts) ==
    SelectSeq([i \in 1..Len(parts) |-> Strip(parts[i])], LAMBDA g : g # <<>>)

_extract_genres(cell) == StripNonEmpty(Split(CellText(cell), ","))

\* returns <<price, age>>
_extract_price_and_age(cell) ==
    LET text == CellText(cell)
    IN  <<PRICE_PATTERN(text), AGE_PATTERN(text)>>

_extract_organizers(cell) == StripNonEmpty(Split(CellText(cell), ","))

\* links[text] = url on a dict kept as a sequence of <<text, url>> pairs:
\* an existing key keeps its place and takes the new value
DictSet(d, k, v) ==
    IF \E i \in 1..Len(d) : d[i][1] = k
    THEN [i \in 1..Len(d) |-> IF d[i][1] = k THEN <<k, v>> ELSE d[i]]
    ELSE Append(d, <<k, v>>)

RECURSIVE CollectLinks(_, _)
CollectLinks(links, d) ==
    IF links = <<>> THEN d
    ELSE LET text == LinkText(Head(links))
             url == _make_absolute_url(HrefGet(Head(links)))
         IN  CollectLinks(Tail(links),
                          IF text # <<>> /\ Truthy(url) THEN DictSet(d, text, url[1]) ELSE d)

\* cellOpt is None when the row has no such cell
_extract_additional_links(cellOpt) ==
    IF cellOpt = None THEN <<>> ELSE CollectLinks(CssLinks(cellOpt[1]), <<>>)

-----------------------------------------------------------------------------
(* Event row parser and listing extractor *)

\* a row is the sequence of its <td> cells; returns None or Some(Event)
_parse_event_row(cells, region) ==
    IF Len(cells) < MIN_CELLS_FOR_EVENT THEN None
    ELSE LET dt == _extract_datetime(cells[1])
         IN  IF ~Truthy(dt[1]) THEN None
             ELSE LET tu == _extract_title_and_url(cells[2])
                      pa == _extract_price_and_age(cells[4])
                  IN  Some([ date |-> dt[1][1],
                             time |-> dt[2],
                             title |-> tu[1],
                             venue |-> _extract_venue(cells[2]),
                             location |-> region.name,
                             genres |-> _extract_genres(cells[3]),
                             price |-> pa[1],
                             age_restriction |-> pa[2],
                             organizers |-> _extract_organizers(cells[5]),
                             url |-> tu[2],
                             additional_links |->
                                 _extract_additional_links(
                                     IF Len(cells) > 5 THEN Some(cells[6]) ELSE None) ])

\* the loop returning at the first row that is no event (a mutant of _parse_events_html)
RECURSIVE _parse_events_html_UntilInvalid(_, _)
_parse_events_html_UntilInvalid(html, region) ==
    IF html = <<>> \/ _parse_event_row(Head(html), region) = None THEN <<>>
    ELSE _parse_event_row(Head(html), region)
             \o _parse_events_html_UntilInvalid(Tail(html), region)

\* html is the sequence of the rows "tbody tr" selects, in document order
RECURSIVE _parse_events_html(_, _)
_parse_events_html(html, region) ==
    IF html = <<>> THEN <<>>
    ELSE _parse_event_row(Head(html), region) \o _parse_events_html(Tail(html), region)

-----------------------------------------------------------------------------
(* The region registry (constants.py), in the dict's insertion order *)

ALL_REGIONS == <<
    [ key |-> <<"b","a","y","a","r","e","a">>,
      name |-> <<"S","a","n"," ","F","r","a","n","c","i","s","c","o"," ","B","a","y"," ","A","r","e","a"," ","/"," ","N","o","r","t","h","e","r","n"," ","C","a","l","i","f","o","r","n","i","a">>,
      filename |-> <<"e","v","e","n","t","l","i","s","t","i","n","g","_","B","a","y","A","r","e","a",".","p","h","p">> ],
    [ key |-> <<"l","a">>,
      name |-> <<"L","o","s"," ","A","n","g","e","l","e","s"," ","/"," ","S","o","u","t","h","e","r","n"," ","C","a","l","i","f","o","r","n","i","a">>,
      filename |-> <<"e","v","e","n","t","l","i","s","t","i","n","g","_","L","o","s","A","n","g","e","l","e","s",".","p","h","p">> ],
    [ key |-> <<"s","e","a","t","t","l","e">>,
      name |-> <<"S","e","a","t","t","l","e">>,
      filename |-> <<"e","v","e","n","t","l","i","s","t","i","n","g","_","S","e","a","t","t","l","e",".","p","h","p">> ],
    [ key |-> <<"a","t","l","a","n","t","a">>,
      name |-> <<"A","t","l","a","n","t","a">>,
      filename |-> <<"e","v","e","n","t","l","i","s","t","i","n","g","_","A","t","l","a","n","t","a",".","p","h","p">> ],
    [ key |-> <<"m","i","a","m","i">>,
      name |-> <<"M","i","a","m","i">>,
      filename |-> <<"e","v","e","n","t","l","i","s","t","i","n","g","_","M","i","a","m","i",".","p","h","p">> ],
    [ key |-> <<"d","c">>,
      name |-> <<"W","a","s","h","i","n","g","t","o","n",","," ","D","C"," ","/"," ","M","a","r","y","l","a","n","d"," ","/"," ","V","i","r","g","i","n","i","a">>,
      filename |-> <<"e","v","e","n","t","l","i","s","t","i","n","g","_","D","C",".","p","h","p">> ],
    [ key |-> <<"t","e","x","a","s">>,
      name |-> <<"T","e","x","a","s">>,
      filename |-> <<"e","v","e","n","t","l","i","s","t","i","n","g","_","T","e","x","a","s",".","p","h","p">> ],
    [ key |-> <<"p","h","i","l","a","d","e","l","p","h","i","a">>,
      name |-> <<"P","h","i","l","a","d","e","l","p","h","i","a">>,
      filename |-> <<"e","v","e","n","t","l","i","s","t","i","n","g","_","P","H","L",".","p","h","p">> ],
    [ key |-> <<"t","o","r","o","n","t","o">>,
      name |-> <<"T","o","r","o","n","t","o">>,
      filename |-> <<"e","v","e","n","t","l","i","s","t","i","n","g","_","T","o","r","o","n","t","o",".","p","h","p">> ],
    [ key |-> <<"i","o","w","a">>,
      name |-> <<"I","o","w","a"," ","/"," ","N","e","b","r","a","s","k","a">>,
      filename |-> <<"e","v","e","n","t","l","i","s","t","i","n","g","_","I","o","w","a",".","p","h","p">> ],
    [ key |-> <<"d","e","n","v","e","r">>,
      name |-> <<"D","e","n","v","e","r">>,
      filename |-> <<"e","v","e","n","t","l","i","s","t","i","n","g","_","D","e","n","v","e","r",".","p","h","p">> ],
    [ key |-> <<"c","h","i","c","a","g","o">>,
      name |-> <<"C","h","i","c","a","g","o">>,
      filename |-> <<"e","v","e","n","t","l","i","s","t","i","n","g","_","C","H","I",".","p","h","p">> ],
    [ key |-> <<"d","e","t","r","o","i","t">>,
      name |-> <<"D","e","t","r","o","i","t">>,
      filename |-> <<"e","v","e","n","t","l","i","s","t","i","n","g","_","D","e","t","r","o","i","t",".","p","h","p">> ],
    [ key |-> <<"m","a","s","s","a","c","h","u","s","e","t","t","s">>,
      name |-> <<"M","a","s","s","a","c","h","u","s","e","t","t","s">>,
      filename |-> <<"e","v","e","n","t","l","i","s","t","i","n","g","_","M","a","s","s","a","c","h","u","s","e","t","t","s",".","p","h","p">> ],
    [ key |-> <<"l","a","s","v","e","g","a","s">>,
      name |-> <<"L","a","s"," ","V","e","g","a","s">>,
      filename |-> <<"e","v","e","n","t","l","i","s","t","i","n","g","_","L","a","s","V","e","g","a","s",".","p","h","p">> ],
    [ key |-> <<"p","h","o","e","n","i","x">>,
      name |-> <<"P","h","o","e","n","i","x">>,
      filename |-> <<"e","v","e","n","t","l","i","s","t","i","n","g","_","P","h","o","e","n","i","x",".","p","h","p">> ],
    [ key |-> <<"o","r","e","g","o","n">>,
      name |-> <<"P","o","r","t","l","a","n","d"," ","/"," ","O","r","e","g","o","n">>,
      filename |-> <<"e","v","e","n","t","l","i","s","t","i","n","g","_","O","R","E",".","p","h","p">> ],
    [ key |-> <<"b","c">>,
      name |-> <<"V","a","n","c","o","u","v","e","r"," ","/"," ","B","r","i","t","i","s","h"," ","C","o","l","u","m","b","i","a">>,
      filename |-> <<"e","v","e","n","t","l","i","s","t","i","n","g","_","B","C",".","p","h","p">> ] >>

\* the number of registry entries the model keeps (a prefix of the registry)
RegistrySize == 3

\* REGIONS, the dict the parser is constructed with
REGIONS == SubSeq(ALL_REGIONS, 1, RegistrySize)

\* Region.url
RegionUrl(region) == <<"h","t","t","p","s",":","/","/","1","9","h","z",".","i","n","f","o","/">> \o region.filename

\* key in self.regions
HasRegion(key) == \E i \in 1..Len(REGIONS) : REGIONS[i].key = key

\* self.regions[key]
RegionOf(key) == REGIONS[CHOOSE i \in 1..Len(REGIONS) : REGIONS[i].key = key]

\* list(self.regions.keys())
RegionKeys == [i \in 1..Len(REGIONS) |-> REGIONS[i].key]

-----------------------------------------------------------------------------
(* models.py *)

\* the term compared without lower() (a mutant of matches_search)
matches_search_TermAsGiven(event, search_term) ==
    \/ Contains(search_term, Lower(event.title))
    \/ Contains(search_term, Lower(event.venue))
    \/ \E i \in 1..Len(event.genres) : Contains(search_term, Lower(event.genres[i]))
    \/ \E i \in 1..Len(event.organizers) :
           Contains(search_term, Lower(event.organizers[i]))

\* Event.matches_search
matches_search(event, search_term) ==
    LET search_lower == Lower(search_term)
    IN  \/ Contains(search_lower, Lower(event.title))
        \/ Contains(search_lower, Lower(event.venue))
        \/ \E i \in 1..Len(event.genres) : Contains(search_lower, Lower(event.genres[i]))
        \/ \E i \in 1..Len(event.organizers) :
               Contains(search_lower, Lower(event.organizers[i]))

\* Python's a // b (floor division), b # 0
FloorDiv(a, b) == IF b > 0 THEN a \div b ELSE (-a) \div (-b)

\* EventPage.total_pages; a page size of 0 raises ZeroDivisionError (None here)
total_pages(page) ==
    IF page.page_size = 0 THEN None
    ELSE Some(Max({1, FloorDiv(page.total_events + page.page_size - 1, page.page_size)}))

-----------------------------------------------------------------------------
(* parser.py: region lookup and paginator *)

\* Python's index clamping for a slice bound
SliceBound(n, len) == IF n < 0 THEN Max({n + len, 0}) ELSE Min({n, len})

\* s[a:b+1]: the end bound taken inclusively (a mutant of PySlice)
PySlice_InclusiveEnd(s, a, b) ==
    LET lo == SliceBound(a, Len(s))
        hi == SliceBound(b + 1, Len(s))
    IN  IF lo >= hi THEN <<>> ELSE SubSeq(s, lo + 1, hi)

\* s[a:b]
PySlice(s, a, b) ==
    LET lo == SliceBound(a, Len(s))
        hi == SliceBound(b, Len(s))
    IN  IF lo >= hi THEN <<>> ELSE SubSeq(s, lo + 1, hi)

\* the lookup without lower() (a mutant of _validate_region)
_validate_region_CaseSensitive(region_key) ==
    IF ~HasRegion(region_key) THEN None ELSE Some(RegionOf(region_key))

\* returns None when ValueError is raised, Some(region) otherwise
_validate_region(region_key) ==
    LET region_key_lower == Lower(region_key)
    IN  IF ~HasRegion(region_key_lower) THEN None ELSE Some(RegionOf(region_key_lower))

\* the message of the ValueError _validate_region raises: the fixed prefix and
\* the keys joined by ", " (kept as the sequence of keys)
InvalidRegionError ==
    [ kind |-> "ValueError",
      text |-> <<"I","n","v","a","l","i","d"," ","r","e","g","i","o","n","."," ","A","v","a","i","l","a","b","l","e"," ","r","e","g","i","o","n","s",":"," ">>,
      keys |-> RegionKeys ]

\* the page number taken as zero-based (a mutant of _paginate_events)
_paginate_events_ZeroBasedPage(events, requested_page, page_size) ==
    LET total_events == Len(events)
        page == Max({1, requested_page})
        start_idx == page * page_size
        end_idx == start_idx + page_size
    IN  [ events |-> PySlice(events, start_idx, end_idx),
          page |-> page,
          page_size |-> page_size,
          total_events |-> total_events,
          has_more |-> end_idx < total_events ]

\* has_more computed with <= (a mutant of _paginate_events)
_paginate_events_HasMoreOffByOne(events, requested_page, page_size) ==
    LET total_events == Len(events)
        page == Max({1, requested_page})
        start_idx == (page - 1) * page_size
        end_idx == start_idx + page_size
    IN  [ events |-> PySlice(events, start_idx, end_idx),
          page |-> page,
          page_size |-> page_size,
          total_events |-> total_events,
          has_more |-> end_idx <= total_events ]

_paginate_events(events, requested_page, page_size) ==
    LET total_events == Len(events)
        page == Max({1, requested_page})
        start_idx == (page - 1) * page_size
        end_idx == start_idx + page_size
    IN  [ events |-> PySlice(events, start_idx, end_idx),
          page |-> page,
          page_size |-> page_size,
          total_events |-> total_events,
          has_more |-> end_idx < total_events ]

\* fetch_events after the page has been fetched: parse, filter, paginate.
\* search is an Optional[str].
FilterEvents(all_events, search) ==
    IF Truthy(search)
    THEN SelectSeq(all_events, LAMBDA e : matches_search(e, search[1]))
    ELSE all_events

fetch_events(html, region, page, page_size, search) ==
    _paginate_events(FilterEvents(_parse_events_html(html, region), search),
                     page, page_size)

-----------------------------------------------------------------------------
(* Table rows the row parser is given *)

\* the largest number of cells of a row
MaxCells == 7

DateCells ==
    { <<TextNode(<<"F","r","i",":"," ","J","a","n"," ","3"," ","(","9","p","m","-","2","a","m",")">>)>>,
      <<TextNode(<<"D","a","t","e","/","T","i","m","e">>)>>,
      <<TextNode(<<"m","o","n"," ","3">>)>>,
      <<>>,
      <<TextNode(<<" ","S","a","t","\n","J","a","n"," ","4"," ">>)>>,
      <<TextNode(<<"M">>), TextNode(<<"o","n">>)>>,
      <<LinkNode(<<"S","u","n"," ","(",")">>, None)>>,
      <<TextNode(<<"M","o"," ","n"," ","(","8",")">>)>> }

TitleCells ==
    { <<LinkNode(<<"R","a","v","e">>, Some(<<"/","e","/","1">>)), TextNode(<<" ","@"," ","C","l","u","b"," ","X"," ","(","S","a","n"," ","F","r","a","n","c","i","s","c","o",")">>)>>,
      <<LinkNode(<<>>, Some(<<"h","t","t","p",":","/","/","x">>))>>,
      <<LinkNode(<<" ">>, None), TextNode(<<"f","r","i">>)>>,
      <<TextNode(<<"P","a","r","t","y"," ","@"," ","H","a","l","l">>)>>,
      <<TextNode(<<"@"," ","H","a","l","l">>)>>,
      <<TextNode(<<"J","u","s","t"," ","t","e","x","t">>)>>,
      <<>>,
      <<TextNode(<<" ","@"," ">>)>>,
      <<TextNode(<<"A"," ","@"," ","B"," ","@"," ","C"," ","(","x",")">>)>> }

GenreCells ==
    { <<TextNode(<<"h","o","u","s","e",","," ","t","e","c","h","n","o">>)>>, <<>>, <<TextNode(<<" ",","," ",",","f","r","i">>)>> }

PriceCells ==
    { <<TextNode(<<"$","1","0","-","1","5"," ","|"," ","2","1","+">>)>>, <<TextNode(<<"F","R","E","E"," ","A","l","l"," ","A","g","e","s">>)>>, <<>>,
      <<TextNode(<<"a","2","1","+"," ","$">>)>> }

OrganizerCells ==
    { <<TextNode(<<"A","c","m","e",","," ","r","a","v","e"," ","c","o">>)>>, <<>> }

LinkCells ==
    { <<LinkNode(<<"F","B">>, Some(<<"/","f","b">>)), LinkNode(<<"F","B">>, Some(<<"h","t","t","p",":","/","/","f">>))>>,
      <<>>,
      <<LinkNode(<<>>, Some(<<"x">>)), LinkNode(<<"t">>, None)>> }

\* the cells a row may hold at position i
CellChoices(i) ==
    CASE i = 1 -> DateCells
      [] i = 2 -> TitleCells
      [] i = 3 -> GenreCells
      [] i = 4 -> PriceCells
      [] i = 5 -> OrganizerCells
      [] i = 6 -> LinkCells
      [] OTHER -> { <<>> }

RECURSIVE RowsOfLen(_)
RowsOfLen(n) ==
    IF n = 0 THEN { <<>> }
    ELSE { Append(r, c) : r \in RowsOfLen(n - 1), c \in CellChoices(n) }

Rows == UNION { RowsOfLen(n) : n \in 0..MaxCells }

-----------------------------------------------------------------------------
(* SpecRow: _parse_event_row applied to one row *)

InitRow ==
    /\ pc = "call"
    /\ input \in { [cells |-> r, region |-> REGIONS[g]] : r \in Rows, g \in 1..Len(REGIONS) }
    /\ result = None
    /\ fetched = <<>>
    /\ responses = <<>>

ParseEventRow ==
    /\ pc = "call"
    /\ result' = _parse_event_row(input.cells, input.region)
    /\ pc' = "done"
    /\ UNCHANGED <<input, fetched, responses>>

NextRow == ParseEventRow

SpecRow == InitRow /\ [][NextRow]_vars

\* the text holds one of the seven weekday abbreviations, letter for letter
HasWeekdayToken(text) ==
    \E i \in 1..(Len(text) - 2) : \E w \in Weekdays :
        \A k \in 1..3 : text[i + k - 1] = w[k]

\* the row-validity gate as the specification states it
PassesGate(cells) == Len(cells) >= 6 /\ HasWeekdayToken(CellText(cells[1]))

\* C1: a row yields an Event if and only if it has at least 6 cells and the
\* text of cell 0 contains a weekday token; nothing in cells 1-5 can make a row
\* that passes the gate yield no event.
C1_RowValidityGate ==
    pc = "done" => ((result # None) <=> PassesGate(input.cells))

\* C1 witness: a row that passes the gate with no link, no "@", no price, no
\* age and no genres has yielded an Event, and a six-cell row without a weekday none.
C1_Witness ==
    /\ pc = "done"
    /\ result # None
    /\ result[1].url = None
    /\ result[1].price = None
    /\ result[1].age_restriction = None
    /\ result[1].genres = <<>>
    /\ result[1].venue = <<"T","B","A">>

\* C8: the title of every Event the row parser produces is a non-empty string.
C8_TitleNeverEmpty ==
    pc = "done" /\ result # None => result[1].title # <<>>

-----------------------------------------------------------------------------
(* SpecListing: _parse_events_html applied to one document *)

\* the largest number of table-body rows of a document
MaxRows == 3

FriRow ==
    << <<TextNode(<<"F","r","i",":"," ","J","a","n"," ","3"," ","(","9","p","m",")">>)>>,
       <<LinkNode(<<"R","a","v","e">>, Some(<<"/","e","/","1">>)), TextNode(<<" ","@"," ","C","l","u","b"," ","X"," ","(","O","a","k","l","a","n","d",")">>)>>,
       <<TextNode(<<"h","o","u","s","e",","," ","t","e","c","h","n","o">>)>>,
       <<TextNode(<<"$","1","0"," ","|"," ","2","1","+">>)>>,
       <<TextNode(<<"A","c","m","e">>)>>,
       <<LinkNode(<<"F","B">>, Some(<<"/","f","b">>))>> >>

SatRow ==
    << <<TextNode(<<"S","a","t",":"," ","J","a","n"," ","4">>)>>,
       <<TextNode(<<"P","a","r","t","y"," ","@"," ","H","a","l","l">>)>>,
       <<TextNode(<<"T","r","a","n","c","e">>)>>,
       <<TextNode(<<"f","r","e","e">>)>>,
       <<TextNode(<<"R","a","v","e"," ","C","o",","," ","a","c","m","e">>)>>,
       <<>>,
       <<>> >>

SunRow ==
    << <<TextNode(<<"S","u","n",":"," ","J","a","n"," ","5"," ","(","2","p","m",")">>)>>,
       <<TextNode(<<"P","i","c","n","i","c">>)>>,
       <<>>,
       <<TextNode(<<"1","8","+">>)>>,
       <<>>,
       <<>> >>

\* a header row: six cells, no weekday
HeaderRow ==
    << <<TextNode(<<"D","a","t","e","/","T","i","m","e">>)>>, <<TextNode(<<"E","v","e","n","t"," ","@"," ","V","e","n","u","e">>)>>, <<TextNode(<<"T","a","g","s">>)>>,
       <<TextNode(<<"P","r","i","c","e"," ","|"," ","A","g","e">>)>>, <<TextNode(<<"O","r","g","a","n","i","z","e","r","s">>)>>, <<TextNode(<<"L","i","n","k","s">>)>> >>

\* a row with a weekday and only five cells
ShortRow ==
    << <<TextNode(<<"M","o","n",":"," ","J","a","n"," ","6">>)>>, <<TextNode(<<"R","a","v","e"," ","@"," ","H","a","l","l">>)>>, <<TextNode(<<"h","o","u","s","e">>)>>,
       <<TextNode(<<"$","5">>)>>, <<TextNode(<<"A","c","m","e">>)>> >>

ListingRows == { FriRow, SatRow, SunRow, HeaderRow, ShortRow }

RECURSIVE SeqsUpTo(_, _)
\* the sequences of at most n elements of S
SeqsUpTo(S, n) ==
    IF n = 0 THEN { <<>> }
    ELSE LET shorter == SeqsUpTo(S, n - 1)
         IN  shorter \cup { Append(s, x) : s \in { t \in shorter : Len(t) = n - 1 }, x \in S }

Documents == SeqsUpTo(ListingRows, MaxRows)

InitListing ==
    /\ pc = "call"
    /\ input \in { [html |-> d, region |-> REGIONS[g]] :
                     d \in Documents, g \in 1..Len(REGIONS) }
    /\ result = <<>>
    /\ fetched = <<>>
    /\ responses = <<>>

ParseEventsHtml ==
    /\ pc = "call"
    /\ result' = _parse_events_html(input.html, input.region)
    /\ pc' = "done"
    /\ UNCHANGED <<input, fetched, responses>>

NextListing == ParseEventsHtml

SpecListing == InitListing /\ [][NextListing]_vars

\* the indices of the rows that pass the row-validity gate
PassingRows(html) == {i \in 1..Len(html) : PassesGate(html[i])}

\* the k-th smallest element of a set of integers
RECURSIVE Kth(_, _)
Kth(S, k) == IF k = 1 THEN Min(S) ELSE Kth(S \ {Min(S)}, k - 1)

\* C2: the returned sequence is the order-preserving subsequence of the rows
\* that pass the gate, one Event per passing row, and every Event's location is
\* the region's display name.
C2_ListingSubsequence ==
    pc = "done" =>
        /\ Len(result) = Cardinality(PassingRows(input.html))
        /\ \A k \in 1..Len(result) :
               /\ Some(result[k]) =
                      _parse_event_row(input.html[Kth(PassingRows(input.html), k)],
                                       input.region)
               /\ result[k].location = input.region.name

\* C2 witness: a three-row document whose middle row fails the gate has yielded
\* two Events with different dates.
C2_Witness ==
    /\ pc = "done"
    /\ Len(input.html) = 3
    /\ PassingRows(input.html) = {1, 3}
    /\ Len(result) = 2
    /\ result[1].date # result[2].date

-----------------------------------------------------------------------------
(* SpecPaginate: _paginate_events applied to one filtered sequence *)

\* the longest filtered sequence, and the largest page size
MaxEvents == 5
MaxPageSize == 3

DigitChars == <<"0","1","2","3","4","5","6","7","8","9">>

\* a well-formed row whose title carries the number i
NumberedRow(i) ==
    << <<TextNode(<<"S","a","t",":"," ","J","a","n"," ","4">>)>>,
       <<TextNode(<<"E", DigitChars[(i % 10) + 1]>> \o <<" ","@"," ","H","a","l","l">>)>>,
       <<TextNode(<<"T","r","a","n","c","e">>)>>,
       <<TextNode(<<"f","r","e","e">>)>>,
       <<TextNode(<<"A","c","m","e">>)>>,
       <<>> >>

\* n Events with distinct titles, as the listing extractor produces them
NumberedEvents(n) == _parse_events_html([i \in 1..n |-> NumberedRow(i)], REGIONS[1])

InitPaginate ==
    /\ pc = "call"
    /\ input \in { [events |-> NumberedEvents(n), page |-> p, page_size |-> z] :
                     n \in 0..MaxEvents,
                     p \in (-1)..(MaxEvents + 1),
                     z \in (-2)..MaxPageSize }
    /\ result = None
    /\ fetched = <<>>
    /\ responses = <<>>

PaginateEvents ==
    /\ pc = "call"
    /\ result' = _paginate_events(input.events, input.page, input.page_size)
    /\ pc' = "done"
    /\ UNCHANGED <<input, fetched, responses>>

NextPaginate == PaginateEvents

SpecPaginate == InitPaginate /\ [][NextPaginate]_vars

\* C3: for a page size >= 1 the EventPage's page is max(1, requested page), its
\* total_events the length of the full sequence, and has_more holds exactly when
\* page * page_size < total_events for the clamped page.
C3_PaginatorMetadata ==
    pc = "done" /\ input.page_size >= 1 =>
        /\ result.page = (IF input.page >= 1 THEN input.page ELSE 1)
        /\ result.total_events = Len(input.events)
        /\ result.has_more <=> (result.page * input.page_size < Len(input.events))

\* C3 witness: a requested page of 0 or less was clamped to page 1 of a sequence
\* longer than the page, and a page beyond the end kept the full total.
C3_Witness ==
    /\ pc = "done"
    /\ input.page_size >= 1
    /\ input.page <= 0
    /\ result.page = 1
    /\ result.has_more
    /\ Len(result.events) < result.total_events

\* max(1, ceil(total / size)): the least k >= 1 with k * size >= total
CeilPages(total, size) == Min({k \in 1..(total + 1) : k * size >= total})

\* C4 as stated: for a page size >= 1 the slice has at most page_size items and
\* is empty if and only if the requested page is beyond total_pages.
C4_SliceEmptyIffBeyond ==
    pc = "done" /\ input.page_size >= 1 =>
        /\ Len(result.events) <= input.page_size
        /\ (result.events = <<>>) <=>
               (input.page > CeilPages(Len(input.events), input.page_size))

\* C4 amended: for a page size >= 1, total_pages is max(1, ceil(total_events /
\* page_size)), the slice has at most page_size items, and it is empty if and
\* only if the requested page is beyond total_pages or the sequence is empty;
\* no input raises.
C4_SliceEmptyIffBeyondOrNoEvents ==
    pc = "done" /\ input.page_size >= 1 =>
        /\ total_pages(result) = Some(CeilPages(Len(input.events), input.page_size))
        /\ Len(result.events) <= input.page_size
        /\ (result.events = <<>>) <=>
               \/ input.page > CeilPages(Len(input.events), input.page_size)
               \/ input.events = <<>>

\* C4 witness: page 1 of the empty sequence is an empty slice although
\* total_pages is 1, and the last page of a non-empty sequence is not empty.
C4_Witness ==
    /\ pc = "done"
    /\ input.page_size >= 1
    /\ input.events = <<>>
    /\ input.page = 1
    /\ result.events = <<>>
    /\ total_pages(result) = Some(1)

-----------------------------------------------------------------------------
(* SpecGetEvents: the get_events tool (server.py) over fetch_events *)

\* the largest number of rows of a fetched listing page
MaxPageRows == 2

FetchedPages == SeqsUpTo({FriRow, SatRow, HeaderRow}, MaxPageRows)

\* the errors _fetch_page_html raises (transport error, raise_for_status)
FetchErrors == {"ConnectError", "HTTPStatusError"}

RegionInputs ==
    { <<"l","a">>, <<"L","A">>, <<"L","a">>, <<"B","a","y","A","r","e","a">>, <<"S","E","A","T","T","L","E">>, <<>>, <<"n","y","c">>, <<"l">>, <<" ","l","a">>, <<"l","a","a">> }

SearchInputs ==
    { None, Some(<<>>), Some(<<"R","A","V","E">>), Some(<<"f","r","i">>), Some(<<"S","a","n">>), Some(<<"h","a","l","l">>),
      Some(<<"2","1","+">>), Some(<<"a","C">>) }

InitGetEvents ==
    /\ pc = "call"
    /\ input \in { [region |-> k, search |-> s, page |-> p, page_size |-> z] :
                     k \in RegionInputs, s \in SearchInputs,
                     p \in {0, 1, 2}, z \in {-1, 0, 1, MaxPageRows} }
    /\ result = None
    /\ fetched = <<>>
    /\ responses = <<>>

\* str(e) returned for the ValueError of _validate_region
InvalidRegionText == [kind |-> "text", body |-> InvalidRegionError]

\* f"Error fetching events: {str(e)}"
FetchErrorText(e) ==
    [kind |-> "text", body |-> [kind |-> "Exception", text |-> <<"E","r","r","o","r"," ","f","e","t","c","h","i","n","g"," ","e","v","e","n","t","s",":"," ">>, error |-> e]]

\* EventPage.format_markdown(region_name, search_term), kept as its parts:
\* heading, search note, the "Page X of Y (N total events)" line, the event
\* blocks and the next-page hint
format_markdown(page, region_name, search_term) ==
    [ kind |-> "page",
      region_name |-> region_name,
      search_note |-> IF Truthy(search_term) THEN search_term ELSE None,
      page |-> page.page,
      total_pages |-> total_pages(page)[1],
      total_events |-> page.total_events,
      events |-> page.events,
      next_page |-> IF page.has_more THEN Some(page.page + 1) ELSE None ]

\* get_events, lines 53-60, once the page is fetched
GetEventsRender(html) ==
    LET region == _validate_region(input.region)[1]
        page_result == fetch_events(html, region, input.page, input.page_size, input.search)
        region_obj == _validate_region(input.region)
        region_name == region_obj[1].name
    IN  IF total_pages(page_result) = None
        THEN FetchErrorText("ZeroDivisionError")
        ELSE format_markdown(page_result, region_name, input.search)

\* get_events up to the await of the page fetch: the region lookup
GetEventsCall ==
    /\ pc = "call"
    /\ LET region == _validate_region(input.region)
       IN  IF region = None
           THEN /\ result' = InvalidRegionText
                /\ pc' = "done"
                /\ fetched' = fetched
           ELSE /\ fetched' = Append(fetched, RegionUrl(region[1]))
                /\ pc' = "fetching"
                /\ result' = result
    /\ UNCHANGED <<input, responses>>

\* the fetch answers with a page: parse, filter, paginate, render
GetEventsFetchOk ==
    /\ pc = "fetching"
    /\ \E html \in FetchedPages :
           /\ responses' = Append(responses, [ok |-> TRUE, html |-> html])
           /\ result' = GetEventsRender(html)
    /\ pc' = "done"
    /\ UNCHANGED <<input, fetched>>

\* the fetch raises: except Exception
GetEventsFetchFail ==
    /\ pc = "fetching"
    /\ \E e \in FetchErrors :
           /\ responses' = Append(responses, [ok |-> FALSE, error |-> e])
           /\ result' = FetchErrorText(e)
    /\ pc' = "done"
    /\ UNCHANGED <<input, fetched>>

NextGetEvents == GetEventsCall \/ GetEventsFetchOk \/ GetEventsFetchFail

SpecGetEvents == InitGetEvents /\ [][NextGetEvents]_vars

\* two characters that are the same letter in either case, or the same character
SameLetter(a, b) ==
    a = b \/ \E i \in 1..26 : {a, b} = {UpperChars[i], LowerChars[i]}

\* k is a letter-case variant of the registered key r
CaseVariant(k, r) == Len(k) = Len(r) /\ \A i \in 1..Len(k) : SameLetter(k[i], r[i])

RegisteredAs(k) == {i \in 1..Len(REGIONS) : CaseVariant(k, REGIONS[i].key)}

\* C6: a letter-case variant of a registered key resolves to that region (its
\* page is the one fetched and its name heads the result); for any other key
\* get_events fetches nothing and returns the message listing every valid key.
C6_RegionKeyLookup ==
    /\ pc \in {"call", "fetching", "done"}
    /\ \A i \in RegisteredAs(input.region) :
           /\ pc # "call" => fetched = <<RegionUrl(REGIONS[i])>>
           /\ pc = "done" /\ result.kind = "page" => result.region_name = REGIONS[i].name
    /\ RegisteredAs(input.region) = {} =>
           /\ fetched = <<>>
           /\ pc # "fetching"
           /\ pc = "done" =>
                  /\ result.kind = "text"
                  /\ result.body.kind = "ValueError"
                  /\ \A i \in 1..Len(REGIONS) :
                         \E j \in 1..Len(result.body.keys) :
                             result.body.keys[j] = REGIONS[i].key

\* C6 witness: the upper-case variant of a registered key has been resolved,
\* its page fetched and the result rendered under the region's name.
C6_Witness ==
    /\ pc = "done"
    /\ input.region = <<"S","E","A","T","T","L","E">>
    /\ result.kind = "page"
    /\ result.region_name = <<"S","e","a","t","t","l","e">>
    /\ fetched = <<<<"h","t","t","p","s",":","/","/","1","9","h","z",".","i","n","f","o","/","e","v","e","n","t","l","i","s","t","i","n","g","_","S","e","a","t","t","l","e",".","p","h","p">>>>

\* the term occurs in s, letter case ignored
CIContains(term, s) ==
    \E off \in 0..(Len(s) - Len(term)) :
        \A k \in 1..Len(term) : SameLetter(term[k], s[off + k])

\* the search filter as the specification states it: title, venue, any genre,
\* any organizer, and no other field
ExpectedMatch(e, term) ==
    \/ CIContains(term, e.title)
    \/ CIContains(term, e.venue)
    \/ \E i \in 1..Len(e.genres) : CIContains(term, e.genres[i])
    \/ \E i \in 1..Len(e.organizers) : CIContains(term, e.organizers[i])

\* the Events of the fetched page, before any filter
Extracted == _parse_events_html(responses[1].html, RegionOf(Lower(input.region)))

\* C7: with a non-empty term the Events kept are exactly those whose title,
\* venue, some genre or some organizer holds the term, letter case ignored;
\* with an empty or absent term the full extracted sequence is paginated.
C7_SearchFilter ==
    pc = "done" /\ result.kind = "page" =>
        LET kept == IF input.search # None /\ input.search # Some(<<>>)
                    THEN SelectSeq(Extracted, LAMBDA e : ExpectedMatch(e, input.search[1]))
                    ELSE Extracted
        IN  /\ result.total_events = Len(kept)
            /\ input.page <= 1 /\ input.page_size >= Len(kept) => result.events = kept

\* C7 witness: the term "fri" occurs in the date of an extracted Event and in
\* none of its searched fields, and the Event was filtered out.
C7_Witness ==
    /\ pc = "done"
    /\ result.kind = "page"
    /\ input.search = Some(<<"f","r","i">>)
    /\ Len(Extracted) = 2
    /\ \E i \in 1..2 : CIContains(<<"f","r","i">>, Extracted[i].date)
    /\ result.total_events = 0

-----------------------------------------------------------------------------
(* SpecSearchAll: the search_all_regions tool (server.py) *)

\* the pages a region's fetch may answer with
SearchAllPages == { <<>>, <<FriRow>>, <<FriRow, SatRow>> }

SearchAllErrors == {"ConnectError"}

\* server.py 95-99: the region's heading and one line per listed event
MatchSection(region, page_result) ==
    [ kind |-> "matches",
      name |-> region.name,
      total_events |-> page_result.total_events,
      lines |-> [i \in 1..Len(page_result.events) |->
                   [ date |-> page_result.events[i].date,
                     title |-> page_result.events[i].title,
                     venue |-> page_result.events[i].venue,
                     url |-> IF Truthy(page_result.events[i].url)
                             THEN page_result.events[i].url ELSE None ]] ]

\* server.py 102-105: except Exception as e
ErrorSection(region, e) == [kind |-> "error", name |-> region.name, error |-> e]

\* the except clause leaving the output as it is (a mutant of SearchOnError)
SearchOnError_Silent(acc, region, e) == acc

\* the loop body when the fetch of `region` raised e
SearchOnError(acc, region, e) ==
    [acc EXCEPT !.output = Append(@, ErrorSection(region, e))]

\* the loop body when the fetch of `region` answered with html (server.py 90-100)
SearchOnPage(acc, region, html) ==
    LET page_result == fetch_events(html, region, 1, input.max_per_region,
                                    Some(input.search_term))
    IN  IF page_result.events # <<>>
        THEN [acc EXCEPT !.output = Append(@, MatchSection(region, page_result)),
                         !.total_found = @ + page_result.total_events]
        ELSE acc

\* server.py 107-112: the closing line
SearchFinish(acc) ==
    [acc EXCEPT !.footer = IF acc.total_found = 0
                           THEN Some([kind |-> "none_found"])
                           ELSE Some([kind |-> "total", total |-> acc.total_found])]

\* the values of the state after the loop has advanced from region acc.idx to
\* the next await of fetch_events, or to the return
SearchAdvance(acc) ==
    LET next == [acc EXCEPT !.idx = @ + 1]
    IN  IF next.idx > Len(REGIONS)
        THEN [pc |-> "done", acc |-> SearchFinish(next), fetch |-> None]
        ELSE [pc |-> "fetching", acc |-> next,
              fetch |-> Some(RegionUrl(_validate_region(REGIONS[next.idx].key)[1]))]

InitSearchAll ==
    /\ pc = "call"
    /\ input \in { [search_term |-> t, max_per_region |-> m] :
                     t \in { <<"r","a","v","e">>, <<"P","A","R","T","Y">>, <<"z","z","z">>, <<>> },
                     m \in { -1, 0, 1, 2, 5 } }
    /\ result = [output |-> <<>>, total_found |-> 0, idx |-> 0, footer |-> None]
    /\ fetched = <<>>
    /\ responses = <<>>

\* the values of the variables after a step of the loop
SearchStep(step) ==
    /\ pc' = step.pc
    /\ result' = step.acc
    /\ fetched' = fetched \o step.fetch
    /\ input' = input

\* search_all_regions up to the first await
SearchAllCall ==
    /\ pc = "call"
    /\ SearchStep(SearchAdvance(result))
    /\ UNCHANGED responses

\* the fetch of region result.idx answers with a page
SearchAllFetchOk ==
    /\ pc = "fetching"
    /\ \E html \in SearchAllPages :
           /\ responses' = Append(responses, [ok |-> TRUE, html |-> html])
           /\ SearchStep(SearchAdvance(SearchOnPage(result, REGIONS[result.idx], html)))

\* the fetch of region result.idx raises
SearchAllFetchFail ==
    /\ pc = "fetching"
    /\ \E e \in SearchAllErrors :
           /\ responses' = Append(responses, [ok |-> FALSE, error |-> e])
           /\ SearchStep(SearchAdvance(SearchOnError(result, REGIONS[result.idx], e)))

NextSearchAll == SearchAllCall \/ SearchAllFetchOk \/ SearchAllFetchFail

SpecSearchAll == InitSearchAll /\ [][NextSearchAll]_vars

\* the Events of region i's page that the search term selects
RegionMatches(i) ==
    LET all == _parse_events_html(responses[i].html, REGIONS[i])
    IN  IF input.search_term = <<>> THEN all
        ELSE SelectSeq(all, LAMBDA e : ExpectedMatch(e, input.search_term))

\* the sections of the output under region i's name
SectionsOf(i) ==
    {j \in 1..Len(result.output) : result.output[j].name = REGIONS[i].name}

\* C5: whatever the fetches answer, every region is fetched exactly once and in
\* turn, the operation returns its text, and the text holds an error section for
\* every region whose fetch failed and the matches of every region whose fetch
\* answered with a non-empty page of results.
C5_FailureIsolation ==
    /\ pc \in {"call", "fetching", "done"}
    /\ Len(fetched) <= Len(REGIONS)
    /\ \A i \in 1..Len(fetched) : fetched[i] = RegionUrl(REGIONS[i])
    /\ pc = "fetching" => Len(fetched) = Len(responses) + 1
    /\ pc # "done" => ENABLED NextSearchAll
    /\ pc = "done" =>
           /\ Len(fetched) = Len(REGIONS)
           /\ Len(responses) = Len(REGIONS)
           /\ result.footer # None
           /\ \A i \in 1..Len(REGIONS) : Cardinality(SectionsOf(i)) <= 1
           /\ \A i \in 1..Len(REGIONS) :
                  IF ~responses[i].ok
                  THEN \E j \in SectionsOf(i) :
                           /\ result.output[j].kind = "error"
                           /\ result.output[j].error = responses[i].error
                  ELSE LET m == RegionMatches(i)
                           shown == IF input.max_per_region >= Len(m) THEN Len(m)
                                    ELSE input.max_per_region
                       IN  input.max_per_region >= 1 /\ m # <<>> =>
                               \E j \in SectionsOf(i) :
                                   /\ result.output[j].kind = "matches"
                                   /\ result.output[j].total_events = Len(m)
                                   /\ Len(result.output[j].lines) = shown
                                   /\ \A k \in 1..shown :
                                          result.output[j].lines[k].title = m[k].title

\* C5 witness: the first region's fetch failed, a later region's fetch answered
\* with matches, and the returned text holds both sections.
C5_Witness ==
    /\ pc = "done"
    /\ ~responses[1].ok
    /\ responses[Len(REGIONS)].ok
    /\ Len(result.output) >= 2
    /\ result.output[1].kind = "error"
    /\ result.output[Len(result.output)].kind = "matches"
    /\ result.output[Len(result.output)].name = REGIONS[Len(REGIONS)].name

\* C9: for every max_per_region the caller supplies, each region's section of
\* the output lists at most max_per_region events.
C9_PerRegionLimit ==
    \A j \in 1..Len(result.output) :
        result.output[j].kind = "matches" =>
            Len(result.output[j].lines) <= input.max_per_region

-----------------------------------------------------------------------------
(* SpecDiscover: EventParser.check_for_new_regions *)

\* the largest number of <a> elements of the root page
MaxLinks == 3

\* the href of an <a> element of the root page: None when it has no href
RootHrefs ==
    { Some(<<"e","v","e","n","t","l","i","s","t","i","n","g","_","B","a","y","A","r","e","a",".","p","h","p">>),
      Some(<<"/","e","v","e","n","t","l","i","s","t","i","n","g","_","L","o","s","A","n","g","e","l","e","s",".","p","h","p","?","x","=","1">>),
      Some(<<"h","t","t","p","s",":","/","/","1","9","h","z",".","i","n","f","o","/","e","v","e","n","t","l","i","s","t","i","n","g","_","N","e","w",".","p","h","p">>),
      Some(<<"e","v","e","n","t","l","i","s","t","i","n","g","_","N","e","w",".","p","h","p","?","a">>),
      Some(<<"e","v","e","n","t","l","i","s","t","i","n","g","/">>),
      Some(<<"e","v","e","n","t","l","i","s","t","i","n","g","_","S","e","a","t","t","l","e",".","p","h","p">>),
      Some(<<"E","v","e","n","t","L","i","s","t","i","n","g","_","T","e","x","a","s",".","p","h","p">>),
      Some(<<"a","b","o","u","t",".","p","h","p">>),
      None }

RootPages == SeqsUpTo(RootHrefs, MaxLinks)

\* parser.css("a[href*='eventlisting']") and the test of line 229
ListingLinks(page) ==
    SelectSeq(page, LAMBDA h : h # None /\ h[1] # <<>> /\ Contains(<<"e","v","e","n","t","l","i","s","t","i","n","g">>, h[1]))

\* href.split("/")[-1].split("?")[0]
FilenameOf(href) ==
    LET segments == Split(href, "/")
    IN  Split(segments[Len(segments)], "?")[1]

\* found_regions after the loop
FoundRegions(page) ==
    LET links == ListingLinks(page)
    IN  [i \in 1..Len(links) |-> FilenameOf(links[i][1])]

\* {r.filename for r in self.regions.values()}
known_filenames == {REGIONS[i].filename : i \in 1..Len(REGIONS)}

RECURSIVE Perms(_)
\* the sequences that hold every element of S once
Perms(S) ==
    IF S = {} THEN { <<>> }
    ELSE UNION { { <<x>> \o p : p \in Perms(S \ {x}) } : x \in S }

\* the list kept as it was found (a mutant of UniqueFound)
UniqueFound_NoSet(found_regions) == { found_regions }

\* list(set(found_regions)): the order of a set's elements is not defined, so
\* every order is possible
UniqueFound(found_regions) == Perms(Range(found_regions))

\* lines 234-236, for the order the set was listed in
NewRegions(unique_found) ==
    [ kind |-> "regions",
      found |-> unique_found,
      new |-> SelectSeq(unique_found, LAMBDA f : f \notin known_filenames) ]

InitDiscover ==
    /\ pc = "call"
    /\ input = [op |-> "check_for_new_regions"]
    /\ result = None
    /\ fetched = <<>>
    /\ responses = <<>>

\* check_for_new_regions up to the await of the root page
DiscoverCall ==
    /\ pc = "call"
    /\ fetched' = Append(fetched, BASE_URL)
    /\ pc' = "fetching"
    /\ UNCHANGED <<input, result, responses>>

\* the root page arrives
DiscoverFetchOk ==
    /\ pc = "fetching"
    /\ \E page \in RootPages :
           /\ responses' = Append(responses, [ok |-> TRUE, html |-> page])
           /\ \E unique_found \in UniqueFound(FoundRegions(page)) :
                  result' = NewRegions(unique_found)
    /\ pc' = "done"
    /\ UNCHANGED <<input, fetched>>

\* the fetch raises, and so does check_for_new_regions
DiscoverFetchFail ==
    /\ pc = "fetching"
    /\ \E e \in FetchErrors :
           /\ responses' = Append(responses, [ok |-> FALSE, error |-> e])
           /\ result' = [kind |-> "raised", error |-> e]
    /\ pc' = "done"
    /\ UNCHANGED <<input, fetched>>

NextDiscover == DiscoverCall \/ DiscoverFetchOk \/ DiscoverFetchFail

SpecDiscover == InitDiscover /\ [][NextDiscover]_vars

\* the filenames of the listing links of the fetched root page
Discovered == Range(FoundRegions(responses[1].html))

\* how often x occurs in s
Count(s, x) == Cardinality({i \in 1..Len(s) : s[i] = x})

\* C10: the found collection holds each discovered filename exactly once, and
\* the new-regions collection is exactly the discovered filenames that are not
\* filenames of the registry.
C10_RegionDiscovery ==
    pc = "done" /\ result.kind = "regions" =>
        /\ Range(result.found) = Discovered
        /\ \A f \in Discovered : Count(result.found, f) = 1
        /\ Range(result.new) = {f \in Discovered : \A i \in 1..Len(REGIONS) : f # REGIONS[i].filename}
        /\ \A f \in Range(result.new) : Count(result.new, f) = 1
        /\ fetched = <<BASE_URL>>

\* C10 witness: the root page linked the same new listing page twice and a known
\* one once; found holds two filenames and new holds the one.
C10_Witness ==
    /\ pc = "done"
    /\ result.kind = "regions"
    /\ Len(FoundRegions(responses[1].html)) = 3
    /\ Len(result.found) = 2
    /\ result.new = <<<<"e","v","e","n","t","l","i","s","t","i","n","g","_","N","e","w",".","p","h","p">>>>
    /\ <<"e","v","e","n","t","l","i","s","t","i","n","g","_","B","a","y","A","r","e","a",".","p","h","p">> \in Range(result.found)

-----------------------------------------------------------------------------
(* SpecBrowse: _paginate_events called for pages 1, 2, ... of one sequence *)

\* the filtered sequences browsed: Events with distinct titles, and sequences
\* in which the same Event recurs
BrowseSequences ==
    { NumberedEvents(n) : n \in 0..MaxEvents }
    \cup { _parse_events_html([i \in 1..Len(s) |-> NumberedRow(s[i])], REGIONS[1]) :
             s \in SeqsUpTo({1, 2}, MaxEvents) }

InitBrowse ==
    /\ pc = "browsing"
    /\ input \in { [events |-> e, page_size |-> z] :
                     e \in BrowseSequences, z \in 1..MaxPageSize }
    /\ result = <<>>
    /\ fetched = <<>>
    /\ responses = <<>>

\* one call of _paginate_events, for the page after the last one returned;
\* the browsing ends with page total_pages
BrowsePage ==
    /\ pc = "browsing"
    /\ LET page == _paginate_events(input.events, Len(result) + 1, input.page_size)
       IN  /\ result' = Append(result, page)
           /\ pc' = IF page.page >= total_pages(page)[1] THEN "done" ELSE "browsing"
    /\ UNCHANGED <<input, fetched, responses>>

NextBrowse == BrowsePage

SpecBrowse == InitBrowse /\ [][NextBrowse]_vars

\* the slices of the pages returned so far, one after the other
Browsed == Concat([k \in 1..Len(result) |-> result[k].events])

\* C11: for a page size >= 1, the slices of pages 1, 2, ..., total_pages put
\* together are the full filtered sequence, every event on one page and in
\* order, and has_more is false on page total_pages and true on every earlier page.
C11_PagesPartition ==
    /\ Len(Browsed) <= Len(input.events)
    /\ Browsed = SubSeq(input.events, 1, Len(Browsed))
    /\ pc = "done" =>
           /\ Len(result) = CeilPages(Len(input.events), input.page_size)
           /\ Browsed = input.events
           /\ \A k \in 1..Len(result) :
                  /\ result[k].page = k
                  /\ result[k].has_more <=> (k < Len(result))

\* C11 witness: five events browsed in pages of two: three pages, the last one
\* holding the single remaining event, has_more true, true, false.
C11_Witness ==
    /\ pc = "done"
    /\ Len(input.events) = 5
    /\ input.page_size = 2
    /\ Len(result) = 3
    /\ Len(result[3].events) = 1
    /\ result[1].has_more /\ result[2].has_more /\ ~result[3].has_more
    /\ result[1].events[1].title # result[3].events[1].title

====
